---- MODULE Spec2Model ----
(***************************************************************************)
(* Model of ntpq.py: the NTP mode-6 control packet codec                   *)
(* (NTPControlPacket.to_data / from_data, decode_association,              *)
(* decode_readvar), the request exchange (NTPControlClient.request) and    *)
(* the composite aggregator (composite_associnfo).                         *)
(*                                                                         *)
(* Byte strings are sequences of integers 0..255.  A raised Python         *)
(* exception is the "err" field of a result record.                       *)
(***************************************************************************)
EXTENDS Integers, Sequences, FiniteSets, TLC

VARIABLES
    assoc_in,      \* decode_association: the argument `data`
    assoc_out,     \* decode_association: the returned dict (or the error raised)
    assoc_pc,      \* "input" before the call, "decoded" after it
    enc_args,      \* NTPControlPacket(...): the constructor's arguments
    enc_out,       \* to_data(): the packed buffer (or the error raised)
    dec_in,        \* from_data(data): the argument `data`
    dec_out,       \* from_data(data): the populated instance (or the error raised)
    codec_pc,      \* "idle", "encoded", "roundtrip", "decoded"
    agg_pc,        \* caller: "idle", "direct", "readstat", "readvar", "returned", "raised"
    agg_assocs,    \* composite_associnfo: ncp.data of the READSTAT exchange
    agg_stat,      \* the datagram the READSTAT exchange decoded
    agg_i,         \* composite_associnfo: index of the association being read
    agg_data,      \* composite_associnfo: the list `data` being built
    agg_err,       \* the exception that left the caller, "none" if none
    req_pc,        \* request(): "idle", "getaddrinfo", "socket", "try", "recvfrom",
                   \*            "finally", "from_data", "returned", "raised"
    req_args,      \* request(): op and association_id
    sockaddr,      \* request(): the resolved address
    sock,          \* request(): the socket s: "none", "open", "closed"
    src_addr,      \* request(): source address of the last datagram received
    response_packet, \* request(): payload of the last datagram received
    ncp,           \* request(): the instance it returns
    req_err,       \* request(): the exception that left it, "none" if none
    n_opened,      \* sockets created by the current call of request()
    n_sent,        \* datagrams sent by the current call of request()
    waited,        \* seconds the pending recvfrom() has been blocked
    elapsed,       \* seconds since the request was sent
    sent           \* every datagram sent so far: [buf, to]

assoc_vars == <<assoc_in, assoc_out, assoc_pc>>
codec_vars == <<enc_args, enc_out, dec_in, dec_out, codec_pc>>
agg_vars == <<agg_pc, agg_assocs, agg_stat, agg_i, agg_data, agg_err>>
req_vars == <<req_pc, req_args, sockaddr, sock, src_addr, response_packet, ncp,
              req_err, n_opened, n_sent, waited, elapsed, sent>>

-----------------------------------------------------------------------------
(* Python integer operators, on unbounded two's-complement integers.        *)

RECURSIVE Pow2(_)
Pow2(n) == IF n = 0 THEN 1 ELSE 2 * Pow2(n - 1)

\* x << n
Shl(x, n) == x * Pow2(n)

\* x >> n  (arithmetic shift: floor division)
Shr(x, n) == x \div Pow2(n)

RECURSIVE BitAnd(_, _)
BitAnd(a, b) ==
    IF a = 0 \/ b = 0 THEN 0
    ELSE IF a = -1 THEN b
    ELSE IF b = -1 THEN a
    ELSE 2 * BitAnd(a \div 2, b \div 2) + (IF a % 2 = 1 /\ b % 2 = 1 THEN 1 ELSE 0)

RECURSIVE BitOr(_, _)
BitOr(a, b) ==
    IF a = 0 THEN b
    ELSE IF b = 0 THEN a
    ELSE IF a = -1 \/ b = -1 THEN -1
    ELSE 2 * BitOr(a \div 2, b \div 2) + (IF a % 2 = 1 \/ b % 2 = 1 THEN 1 ELSE 0)

-----------------------------------------------------------------------------
(* struct: the widths of the format characters.                             *)

\* struct format "B": unsigned char, 0..UCharMax
UCharMax == 255
\* struct format "H": unsigned short, 0..UShortMax
UShortMax == 65535

Byte == 0..UCharMax

\* "!H" unpacking: two bytes, network (big-endian) order
UnpackH(hi, lo) == hi * (UCharMax + 1) + lo

\* "!H" packing
PackH(x) == <<x \div (UCharMax + 1), x % (UCharMax + 1)>>

\* data[lo:hi] of Python (0-based, half-open, clipped to the string)
Slice(data, lo, hi) ==
    LET h == IF hi > Len(data) THEN Len(data) ELSE hi
    IN  IF lo >= h THEN <<>> ELSE SubSeq(data, lo + 1, h)

-----------------------------------------------------------------------------
(* decode_association(data)                                                 *)

\* struct.unpack("!H B B", data): exactly 4 bytes, else struct.error
AssocRecordLen == 4

\* decode_association reading peer_config from bit 6 instead of bit 7
decode_association_shift6(data) ==
    IF Len(data) # AssocRecordLen THEN [err |-> "struct.error"]
    ELSE LET unpacked == <<UnpackH(data[1], data[2]), data[3], data[4]>> IN
         [err                |-> "none",
          association_id     |-> unpacked[1],
          peer_config        |-> BitAnd(Shr(unpacked[2], 6), 1),
          peer_authenable    |-> BitAnd(Shr(unpacked[2], 6), 1),
          peer_authentic     |-> BitAnd(Shr(unpacked[2], 5), 1),
          peer_reach         |-> BitAnd(Shr(unpacked[2], 4), 1),
          reserved           |-> BitAnd(Shr(unpacked[2], 3), 1),
          peer_selection     |-> BitAnd(unpacked[2], 7),
          peer_event_counter |-> BitAnd(Shr(unpacked[3], 4), 15),
          peer_event_code    |-> BitAnd(unpacked[3], 15)]

decode_association(data) ==
    IF Len(data) # AssocRecordLen THEN [err |-> "struct.error"]
    ELSE LET unpacked == <<UnpackH(data[1], data[2]), data[3], data[4]>> IN
         [err                |-> "none",
          association_id     |-> unpacked[1],
          peer_config        |-> BitAnd(Shr(unpacked[2], 7), 1),
          peer_authenable    |-> BitAnd(Shr(unpacked[2], 6), 1),
          peer_authentic     |-> BitAnd(Shr(unpacked[2], 5), 1),
          peer_reach         |-> BitAnd(Shr(unpacked[2], 4), 1),
          reserved           |-> BitAnd(Shr(unpacked[2], 3), 1),
          peer_selection     |-> BitAnd(unpacked[2], 7),
          peer_event_counter |-> BitAnd(Shr(unpacked[3], 4), 15),
          peer_event_code    |-> BitAnd(unpacked[3], 15)]

-----------------------------------------------------------------------------
(* NTPControlPacket                                                         *)

\* _OPCODES
READSTAT == 1
READVAR == 2

OpNames == {"readstat", "readvar"}

\* NTPControlPacket._OPCODES[op]
OPCODES(op) == IF op = "readstat" THEN READSTAT ELSE READVAR

\* self.mode = 6
ControlMode == 6

\* struct.calcsize("!B B H H H H H")
HeaderLen == 12

StrVal(s) == [kind |-> "str", text |-> s, n |-> 0, frac |-> 0]
IntVal(n) == [kind |-> "int", text |-> <<>>, n |-> n, frac |-> 0]

\* dict()
EmptyDict == [k \in {} |-> StrVal(<<>>)]

\* An instance before from_data has set self.data
NoData == [kind |-> "unset", list |-> <<>>, dict |-> EmptyDict]

\* __init__: the instance the constructor leaves (KeyError for an op name that
\* is no key of _OPCODES).
NewPacket(version, op, association_id, sequence) ==
    [err            |-> IF op \in OpNames THEN "none" ELSE "KeyError",
     leap           |-> 0,
     version        |-> version,
     mode           |-> ControlMode,
     response_bit   |-> 0,
     error_bit      |-> 0,
     more_bit       |-> 0,
     opcode         |-> IF op \in OpNames THEN OPCODES(op) ELSE 0,
     sequence       |-> sequence,
     status         |-> 0,
     association_id |-> association_id,
     offset         |-> 0,
     count          |-> 0,
     clocksource          |-> 0,
     system_event_counter |-> 0,
     system_event_code    |-> 0,
     data           |-> NoData]

\* PackArgs with sequence and association_id in each other's place
PackArgsSwapped(p) ==
    <<BitOr(BitOr(Shl(p.leap, 6), Shl(p.version, 3)), p.mode),
      BitOr(BitOr(BitOr(Shl(p.response_bit, 7), Shl(p.error_bit, 6)),
                  Shl(p.more_bit, 5)), p.opcode),
      p.association_id, p.status, p.sequence, p.offset, p.count>>

\* The seven values handed to struct.pack, in the order of _PACKET_FORMAT.
PackArgs(p) ==
    <<BitOr(BitOr(Shl(p.leap, 6), Shl(p.version, 3)), p.mode),
      BitOr(BitOr(BitOr(Shl(p.response_bit, 7), Shl(p.error_bit, 6)),
                  Shl(p.more_bit, 5)), p.opcode),
      p.sequence, p.status, p.association_id, p.offset, p.count>>

\* struct.pack raises struct.error when a value is outside its format's range.
PackFits(a) ==
    /\ a[1] \in 0..UCharMax
    /\ a[2] \in 0..UCharMax
    /\ \A i \in 3..7 : a[i] \in 0..UShortMax

\* to_data(): the buffer, or NTPException("Invalid NTP packet fields.")
to_data(p) ==
    LET a == PackArgs(p) IN
    IF PackFits(a)
    THEN [err |-> "none",
          buf |-> <<a[1], a[2]>> \o PackH(a[3]) \o PackH(a[4]) \o PackH(a[5])
                  \o PackH(a[6]) \o PackH(a[7])]
    ELSE [err |-> "NTPException", buf |-> <<>>]

\* decode_readstat: one decode_association per offset of
\* range(header_len, len(data), 4); the first struct.error ends the loop.
RECURSIVE ReadstatFrom(_, _, _)
ReadstatFrom(data, offset, acc) ==
    IF offset >= Len(data) THEN [err |-> "none", list |-> acc]
    ELSE LET association_dict == decode_association(Slice(data, offset, offset + 4)) IN
         IF association_dict.err # "none"
         THEN [err |-> association_dict.err, list |-> acc]
         ELSE ReadstatFrom(data, offset + 4, Append(acc, association_dict))

decode_readstat(header_len, data) == ReadstatFrom(data, header_len, <<>>)

-----------------------------------------------------------------------------
(* decode_readvar: the text of a READVAR response                           *)

Comma == 44
EqualsSign == 61
Dot == 46
CR == 13
LF == 10
\* string.whitespace of str.lstrip(): space, \t, \n, \r, \x0b, \x0c
Whitespace == {32, 9, 10, 13, 11, 12}

\* "rec"
Key_rec == <<114, 101, 99>>
\* "reftime"
Key_reftime == <<114, 101, 102, 116, 105, 109, 101>>
\* "when"
Key_when == <<119, 104, 101, 110>>

\* s.split(sep) for a one-character separator
RECURSIVE SplitAcc(_, _, _, _)
SplitAcc(s, sep, i, cur) ==
    IF i > Len(s) THEN <<cur>>
    ELSE IF s[i] = sep THEN <<cur>> \o SplitAcc(s, sep, i + 1, <<>>)
    ELSE SplitAcc(s, sep, i + 1, Append(cur, s[i]))

Split(s, sep) == SplitAcc(s, sep, 1, <<>>)

\* s.replace("\r\n", "")
RECURSIVE RemoveCRLF(_)
RemoveCRLF(s) ==
    IF Len(s) = 0 THEN <<>>
    ELSE IF Len(s) >= 2 /\ s[1] = CR /\ s[2] = LF THEN RemoveCRLF(SubSeq(s, 3, Len(s)))
    ELSE <<s[1]>> \o RemoveCRLF(Tail(s))

\* s.lstrip()
RECURSIVE LStrip(_)
LStrip(s) ==
    IF Len(s) > 0 /\ s[1] \in Whitespace THEN LStrip(Tail(s)) ELSE s

\* The value of one hexadecimal digit, -1 for any other character.
HexDigit(c) ==
    IF c \in 48..57 THEN c - 48
    ELSE IF c \in 97..102 THEN c - 87
    ELSE IF c \in 65..70 THEN c - 55
    ELSE -1

IsHex(s) == Len(s) > 0 /\ \A i \in 1..Len(s) : HexDigit(s[i]) >= 0

\* int(x, 16) on a string of hexadecimal digits (anything else: ValueError)
RECURSIVE HexValue(_)
HexValue(s) ==
    IF Len(s) = 0 THEN 0
    ELSE 16 * HexValue(SubSeq(s, 1, Len(s) - 1)) + HexDigit(s[Len(s)])

\* ntplib.ntp_to_system_time(ntplib._to_time(int_part, frac_part)): the NTP
\* timestamp, kept as its two parts
TimeVal(int_part, frac_part) ==
    [kind |-> "time", text |-> <<>>, n |-> int_part, frac |-> frac_part]
\* time.time() - self.data['rec']
WhenVal(rec) == [kind |-> "when", text |-> <<>>, n |-> rec.n, frac |-> rec.frac]

\* d[key] = val on a dict held as a function
DictSet(d, key, val) ==
    [k \in DOMAIN d \cup {key} |-> IF k = key THEN val ELSE d[k]]

\* The loop body of decode_readvar on one element of buf: the dict after it,
\* or ValueError (a segment that does not split into key and val, a timestamp
\* that does not split into two hexadecimal integers).
ReadvarSegment(dict, d) ==
    LET kv == Split(LStrip(RemoveCRLF(d)), EqualsSign) IN
    IF Len(kv) # 2 THEN [err |-> "ValueError", dict |-> dict]
    ELSE LET key == kv[1]
             val == kv[2]
         IN  IF key \in {Key_rec, Key_reftime}
             THEN LET parts == Split(val, Dot) IN
                  IF (\E i \in 1..Len(parts) : ~IsHex(parts[i])) \/ Len(parts) # 2
                  THEN [err |-> "ValueError", dict |-> dict]
                  ELSE [err |-> "none",
                        dict |-> DictSet(dict, key,
                                     TimeVal(HexValue(parts[1]), HexValue(parts[2])))]
             ELSE [err |-> "none", dict |-> DictSet(dict, key, StrVal(val))]

RECURSIVE ReadvarLoop(_, _, _)
ReadvarLoop(buf, i, dict) ==
    IF i > Len(buf) THEN [err |-> "none", dict |-> dict]
    ELSE LET r == ReadvarSegment(dict, buf[i]) IN
         IF r.err # "none" THEN r ELSE ReadvarLoop(buf, i + 1, r.dict)

\* decode_readvar: the dict, with 'when' added, or ValueError from the loop,
\* or KeyError when no 'rec' was seen.
decode_readvar(header_len, data) ==
    LET buf == Split(Slice(data, header_len, Len(data)), Comma)
        r == ReadvarLoop(buf, 1, EmptyDict)
    IN  IF r.err # "none" THEN r
        ELSE IF Key_rec \notin DOMAIN r.dict THEN [err |-> "KeyError", dict |-> r.dict]
        ELSE [err |-> "none", dict |-> DictSet(r.dict, Key_when, WhenVal(r.dict[Key_rec]))]

-----------------------------------------------------------------------------
(* NTPControlPacket.from_data                                               *)

\* The header fields from_data assigns, in its order of assignment (leap is
\* assigned twice: from byte 0, then from the status word).
HeaderFields(p, unpacked) ==
    LET p1 == [p EXCEPT
                 !.leap = BitAnd(Shr(unpacked[1], 6), 1),
                 !.version = BitAnd(Shr(unpacked[1], 3), 7),
                 !.mode = BitAnd(unpacked[1], 7),
                 !.response_bit = BitAnd(Shr(unpacked[2], 7), 1),
                 !.error_bit = BitAnd(Shr(unpacked[2], 6), 1),
                 !.more_bit = BitAnd(Shr(unpacked[2], 5), 1),
                 !.opcode = BitAnd(unpacked[2], 31),
                 !.sequence = unpacked[3]]
    IN  [p1 EXCEPT
           !.leap = BitAnd(Shr(unpacked[4], 14), 1),
           !.clocksource = BitAnd(Shr(unpacked[4], 8), 31),
           !.system_event_counter = BitAnd(Shr(unpacked[4], 4), 15),
           !.system_event_code = BitAnd(unpacked[4], 15),
           !.association_id = unpacked[5],
           !.offset = unpacked[6],
           !.count = unpacked[7]]

\* struct.unpack(_PACKET_FORMAT, data[0:header_len]) on a full header
UnpackHeader(h) ==
    <<h[1], h[2], UnpackH(h[3], h[4]), UnpackH(h[5], h[6]), UnpackH(h[7], h[8]),
      UnpackH(h[9], h[10]), UnpackH(h[11], h[12])>>

\* from_data(data) on the instance p: the populated instance; err is the
\* exception that leaves from_data, "none" when it returns.
from_data(p, data) ==
    LET h == Slice(data, 0, HeaderLen) IN
    IF Len(h) # HeaderLen THEN [p EXCEPT !.err = "NTPException"]
    ELSE LET q == HeaderFields(p, UnpackHeader(h)) IN
         IF q.opcode \notin {READSTAT, READVAR} THEN [q EXCEPT !.err = "KeyError"]
         ELSE IF q.opcode = READSTAT
         THEN LET r == decode_readstat(HeaderLen, data) IN
              [q EXCEPT !.err = r.err,
                        !.data = [kind |-> "list", list |-> r.list, dict |-> EmptyDict]]
         ELSE LET r == decode_readvar(HeaderLen, data) IN
              [q EXCEPT !.err = r.err,
                        !.data = [kind |-> "dict", list |-> <<>>, dict |-> r.dict]]

-----------------------------------------------------------------------------
(* Inputs                                                                   *)

\* The association ids the inputs are drawn with (bytes 0 and 1).
AssocIdBytes == {<<0, 20>>, <<1, 0>>, <<255, 255>>}

AssocInputs ==
    {id \o <<b2, b3>> : id \in AssocIdBytes, b2 \in Byte, b3 \in Byte}

\* Constructor arguments: versions from -1 up to MaxVersion, the two op names
\* and one that is no key of _OPCODES, ids and sequence numbers around the
\* ends of the 16-bit range.
MaxVersion == 33
VersionInputs == -1..MaxVersion
OpInputs == {"readstat", "readvar", "writevar"}
IdInputs == {-1, 0, 1, 20, 255, 256, 65535, 65536}
SeqInputs == {-1, 0, 1, 258, 65535, 65536}

\* Received headers: byte 0 (leap/version/mode), byte 1 (flags/opcode), the
\* status word, and a fixed sequence, association id, offset and count.
Byte0Inputs == {0, 22, 86, 150, 214, 255}
Byte1Inputs == {1, 2, 128, 129, 130, 135, 159, 162, 194}
StatusInputs == {0, 1556, 8192, 16128, 16384, 32768, 49152, 65535}

Header(b0, b1, sequence, status, association_id, offset, count) ==
    <<b0, b1>> \o PackH(sequence) \o PackH(status) \o PackH(association_id)
    \o PackH(offset) \o PackH(count)

\* READSTAT bodies: the first n bytes of a stream of association records
\* (ids 20, 21, ...), for every n up to MaxBodyLen.
MaxBodyLen == 9
StatByte(i) ==
    LET j == (i - 1) \div 4
        k == (i - 1) % 4
    IN  IF k = 0 THEN 0
        ELSE IF k = 1 THEN 20 + j
        ELSE IF k = 2 THEN 154 - 16 * j
        ELSE 26 + j
StatBody(n) == [i \in 1..n |-> StatByte(i)]

\* READVAR bodies.
\* ''
Text0 == <<>>
\* 'rec=5a2b3c4d.40000000,leap=0\r\n'
Text1 == <<114, 101, 99, 61, 53, 97, 50, 98, 51, 99, 52, 100, 46, 52, 48, 48, 48, 48, 48, 48, 48, 44, 108, 101, 97, 112, 61, 48, 13, 10>>
\* 'leap=0'
Text2 == <<108, 101, 97, 112, 61, 48>>
\* 'rec=1.0'
Text3 == <<114, 101, 99, 61, 49, 46, 48>>
\* 'rec=1.0, association_id=9\r\n'
Text4 == <<114, 101, 99, 61, 49, 46, 48, 44, 32, 97, 115, 115, 111, 99, 105, 97, 116, 105, 111, 110, 95, 105, 100, 61, 57, 13, 10>>
\* 'norec'
Text5 == <<110, 111, 114, 101, 99>>
\* 'a=b=c,rec=1.0'
Text6 == <<97, 61, 98, 61, 99, 44, 114, 101, 99, 61, 49, 46, 48>>
\* 'rec=1'
Text7 == <<114, 101, 99, 61, 49>>
\* 'rec=zz.0'
Text8 == <<114, 101, 99, 61, 122, 122, 46, 48>>
\* 'rec=1.0,reftime=2.8,'
Text9 == <<114, 101, 99, 61, 49, 46, 48, 44, 114, 101, 102, 116, 105, 109, 101, 61, 50, 46, 56, 44>>

TextBodies == {Text0, Text1, Text2, Text3, Text4, Text5, Text6, Text7, Text8, Text9}

Bodies == {StatBody(n) : n \in 0..MaxBodyLen} \cup TextBodies

\* Datagrams shorter than the header.
ShortPackets == {SubSeq(Header(22, 129, 1, 0, 0, 0, 0), 1, n) : n \in 0..(HeaderLen - 1)}

ResponsePackets ==
    {Header(b0, b1, 1, st, 20, 0, Len(body)) \o body :
        b0 \in Byte0Inputs, b1 \in Byte1Inputs, st \in StatusInputs, body \in Bodies}
    \cup ShortPackets

-----------------------------------------------------------------------------
(* Specification of decode_association alone                                *)

AssocIdle ==
    /\ assoc_in = <<>>
    /\ assoc_out = [err |-> "unset"]
    /\ assoc_pc = "idle"

CodecIdle ==
    /\ enc_args = [version |-> 2, op |-> "readstat", association_id |-> 0, sequence |-> 1]
    /\ enc_out = [err |-> "unset", buf |-> <<>>]
    /\ dec_in = <<>>
    /\ dec_out = NewPacket(2, "readstat", 0, 1)
    /\ codec_pc = "idle"

ClientIdle ==
    /\ agg_pc = "idle"
    /\ agg_assocs = <<>>
    /\ agg_stat = <<>>
    /\ agg_i = 0
    /\ agg_data = <<>>
    /\ agg_err = "none"
    /\ req_pc = "idle"
    /\ req_args = [op |-> "readvar", association_id |-> 0]
    /\ sockaddr = <<"None">>
    /\ sock = "none"
    /\ src_addr = <<"None">>
    /\ response_packet = <<>>
    /\ ncp = NewPacket(2, "readstat", 0, 1)
    /\ req_err = "none"
    /\ n_opened = 0
    /\ n_sent = 0
    /\ waited = 0
    /\ elapsed = 0
    /\ sent = <<>>

AssocInit ==
    /\ assoc_in \in AssocInputs
    /\ assoc_out = [err |-> "unset"]
    /\ assoc_pc = "input"
    /\ CodecIdle
    /\ ClientIdle

DecodeAssociation ==
    /\ assoc_pc = "input"
    /\ assoc_out' = decode_association(assoc_in)
    /\ assoc_pc' = "decoded"
    /\ UNCHANGED <<assoc_in, codec_vars, agg_vars, req_vars>>

vars == <<assoc_vars, codec_vars, agg_vars, req_vars>>

AssocNext == DecodeAssociation

SpecAssoc == AssocInit /\ [][AssocNext]_vars

\* C10: for every 4-byte input b0 b1 b2 b3 the decoded record has
\* association_id = 256*b0 + b1, and its flag / selection / event fields are
\* exactly the bit fields of b2 (config, authenable, authentic, reach, reserved,
\* 3-bit selection) and b3 (4-bit event counter, 4-bit event code).
AssocLayout ==
    assoc_pc = "decoded" =>
        LET r == assoc_out
            b == assoc_in
        IN  /\ r.err = "none"
            /\ r.association_id = 256 * b[1] + b[2]
            /\ {r.peer_config, r.peer_authenable, r.peer_authentic,
                r.peer_reach, r.reserved} \subseteq {0, 1}
            /\ r.peer_selection \in 0..7
            /\ b[3] = 128 * r.peer_config + 64 * r.peer_authenable
                      + 32 * r.peer_authentic + 16 * r.peer_reach
                      + 8 * r.reserved + r.peer_selection
            /\ r.peer_event_counter \in 0..15
            /\ r.peer_event_code \in 0..15
            /\ b[4] = 16 * r.peer_event_counter + r.peer_event_code

\* The record 00 14 9a 1a: id 0x0014, config and reach set, selection 2,
\* event counter 1, event code 10.
AssocLayoutWitness ==
    /\ assoc_pc = "decoded"
    /\ assoc_in = <<0, 20, 154, 26>>
    /\ assoc_out.association_id = 20
    /\ assoc_out.peer_config = 1
    /\ assoc_out.peer_reach = 1
    /\ assoc_out.peer_selection = 2
    /\ assoc_out.peer_event_counter = 1
    /\ assoc_out.peer_event_code = 10

-----------------------------------------------------------------------------
(* Specification of the codec: construct and encode a request, decode it    *)
(* again; decode a received datagram.                                       *)

CodecInit ==
    /\ AssocIdle
    /\ CodecIdle
    /\ ClientIdle

\* NTPControlPacket(version, op, association_id, sequence).to_data()
Encode ==
    /\ codec_pc = "idle"
    /\ \E op \in OpInputs, association_id \in IdInputs,
          sequence \in SeqInputs, version \in VersionInputs :
         LET p == NewPacket(version, op, association_id, sequence) IN
         /\ enc_args' = [version |-> version, op |-> op,
                         association_id |-> association_id, sequence |-> sequence]
         /\ enc_out' = IF p.err # "none" THEN [err |-> p.err, buf |-> <<>>]
                       ELSE to_data(p)
    /\ codec_pc' = "encoded"
    /\ UNCHANGED <<dec_in, dec_out, assoc_vars, agg_vars, req_vars>>

\* NTPControlPacket().from_data(buffer) on the buffer to_data returned
DecodeEncoded ==
    /\ codec_pc = "encoded"
    /\ enc_out.err = "none"
    /\ dec_in' = enc_out.buf
    /\ dec_out' = from_data(NewPacket(2, "readstat", 0, 1), enc_out.buf)
    /\ codec_pc' = "roundtrip"
    /\ UNCHANGED <<enc_args, enc_out, assoc_vars, agg_vars, req_vars>>

\* NTPControlPacket().from_data(data) on a received datagram
DecodeResponse ==
    /\ codec_pc = "idle"
    /\ \E data \in ResponsePackets :
         /\ dec_in' = data
         /\ dec_out' = from_data(NewPacket(2, "readstat", 0, 1), data)
    /\ codec_pc' = "decoded"
    /\ UNCHANGED <<enc_args, enc_out, assoc_vars, agg_vars, req_vars>>

CodecNext == Encode \/ DecodeEncoded \/ DecodeResponse

SpecCodec == CodecInit /\ [][CodecNext]_vars

ValidArgs(a) ==
    /\ a.version \in 0..7
    /\ a.op \in OpNames
    /\ a.association_id \in 0..UShortMax
    /\ a.sequence \in 0..UShortMax

SameHeaderFields ==
    /\ dec_out.version = enc_args.version
    /\ dec_out.opcode = OPCODES(enc_args.op)
    /\ dec_out.association_id = enc_args.association_id
    /\ dec_out.sequence = enc_args.sequence

\* C1 as stated: for every valid version, opcode, association_id and sequence,
\* decoding the encoded request succeeds and yields the same four values.
RoundTripSucceeds ==
    /\ (codec_pc = "encoded" /\ ValidArgs(enc_args)) => enc_out.err = "none"
    /\ (codec_pc = "roundtrip" /\ ValidArgs(enc_args)) =>
           (dec_out.err = "none" /\ SameHeaderFields)

\* C1 as amended: a valid request encodes to 12 bytes, and from_data sets
\* the same version, opcode, association_id and sequence from them; for
\* READSTAT it returns (with an empty association list), for READVAR it then
\* raises ValueError on the empty variable text.
RoundTripHeader ==
    /\ (codec_pc = "encoded" /\ ValidArgs(enc_args)) =>
           (enc_out.err = "none" /\ Len(enc_out.buf) = HeaderLen)
    /\ (codec_pc = "roundtrip" /\ ValidArgs(enc_args)) =>
           /\ SameHeaderFields
           /\ enc_args.op = "readstat" =>
                  (dec_out.err = "none" /\ dec_out.data.kind = "list"
                   /\ dec_out.data.list = <<>>)
           /\ enc_args.op = "readvar" => dec_out.err = "ValueError"

RoundTripWitness ==
    /\ codec_pc = "roundtrip"
    /\ enc_args = [version |-> 7, op |-> "readstat",
                   association_id |-> 65535, sequence |-> 258]
    /\ dec_out.err = "none"
    /\ dec_out.version = 7
    /\ dec_out.association_id = 65535
    /\ dec_out.sequence = 258

\* The fields of a received header, by the wire layout.
OpcodeField(data) == data[2] % 32
StatusWord(data) == 256 * data[5] + data[6]
BodyLen(data) == Len(data) - HeaderLen

\* C6: a READSTAT response with a body of length L decodes without error to
\* floor(L/4) association records, one per complete 4-byte chunk, in order.
ReadstatChunking ==
    (codec_pc = "decoded" /\ Len(dec_in) >= HeaderLen /\ OpcodeField(dec_in) = READSTAT) =>
        /\ dec_out.err = "none"
        /\ Len(dec_out.data.list) = BodyLen(dec_in) \div 4
        /\ \A i \in 1..(BodyLen(dec_in) \div 4) :
               dec_out.data.list[i] =
                   decode_association(SubSeq(dec_in, HeaderLen + 4 * i - 3, HeaderLen + 4 * i))

\* C7: decoding a packet of at least header size whose opcode field is not
\* READSTAT or READVAR fails with NTPException.
UnsupportedOpcodeRaisesNTPException ==
    (codec_pc = "decoded" /\ Len(dec_in) >= HeaderLen
        /\ OpcodeField(dec_in) \notin {READSTAT, READVAR}) =>
        dec_out.err = "NTPException"

\* C8: encoding fails with NTPException whenever a field does not fit its bit
\* width (version outside 0..7, association_id or sequence outside 0..65535);
\* no such value is encoded into a header.  (An opcode reaches the constructor
\* only as an op name; the names here are the two it knows.)
EncodeRangeChecked ==
    (codec_pc = "encoded" /\ enc_args.op \in OpNames /\ ~ValidArgs(enc_args)) =>
        enc_out.err = "NTPException"

\* C9: the decoded header fields are the bit fields of the wire layout: leap
\* is the 2-bit value of bits 7-6 of byte 0, the status word splits into
\* leap(2) / clocksource(6) / event counter(4) / event code(4), and version,
\* mode, flags, opcode, sequence, association_id, offset and count are exact.
HeaderLayout ==
    (codec_pc = "decoded" /\ Len(dec_in) >= HeaderLen) =>
        LET b == dec_in
            r == dec_out
        IN  /\ r.leap = b[1] \div 64
            /\ r.version = (b[1] \div 8) % 8
            /\ r.mode = b[1] % 8
            /\ r.response_bit = b[2] \div 128
            /\ r.error_bit = (b[2] \div 64) % 2
            /\ r.more_bit = (b[2] \div 32) % 2
            /\ r.opcode = b[2] % 32
            /\ r.sequence = 256 * b[3] + b[4]
            /\ r.clocksource = (StatusWord(b) \div 256) % 64
            /\ r.system_event_counter = (StatusWord(b) \div 16) % 16
            /\ r.system_event_code = StatusWord(b) % 16
            /\ r.association_id = 256 * b[7] + b[8]
            /\ r.offset = 256 * b[9] + b[10]
            /\ r.count = 256 * b[11] + b[12]

-----------------------------------------------------------------------------
(* NTPControlClient.request and composite_associnfo                         *)

\* "association_id"
Key_association_id == <<97, 115, 115, 111, 99, 105, 97, 116, 105, 111, 110, 95, 105, 100>>
\* "peer_config"
Key_peer_config == <<112, 101, 101, 114, 95, 99, 111, 110, 102, 105, 103>>
\* "peer_authenable"
Key_peer_authenable == <<112, 101, 101, 114, 95, 97, 117, 116, 104, 101, 110, 97, 98, 108, 101>>
\* "peer_authentic"
Key_peer_authentic == <<112, 101, 101, 114, 95, 97, 117, 116, 104, 101, 110, 116, 105, 99>>
\* "peer_reach"
Key_peer_reach == <<112, 101, 101, 114, 95, 114, 101, 97, 99, 104>>
\* "reserved"
Key_reserved == <<114, 101, 115, 101, 114, 118, 101, 100>>
\* "peer_selection"
Key_peer_selection == <<112, 101, 101, 114, 95, 115, 101, 108, 101, 99, 116, 105, 111, 110>>
\* "peer_event_counter"
Key_peer_event_counter == <<112, 101, 101, 114, 95, 101, 118, 101, 110, 116, 95, 99, 111, 117, 110, 116, 101, 114>>
\* "peer_event_code"
Key_peer_event_code == <<112, 101, 101, 114, 95, 101, 118, 101, 110, 116, 95, 99, 111, 100, 101>>

\* assoc.items(): the keys of the dict decode_association returns, with values
AssocItems(assoc) ==
    <<<<Key_association_id, IntVal(assoc.association_id)>>,
      <<Key_peer_config, IntVal(assoc.peer_config)>>,
      <<Key_peer_authenable, IntVal(assoc.peer_authenable)>>,
      <<Key_peer_authentic, IntVal(assoc.peer_authentic)>>,
      <<Key_peer_reach, IntVal(assoc.peer_reach)>>,
      <<Key_reserved, IntVal(assoc.reserved)>>,
      <<Key_peer_selection, IntVal(assoc.peer_selection)>>,
      <<Key_peer_event_counter, IntVal(assoc.peer_event_counter)>>,
      <<Key_peer_event_code, IntVal(assoc.peer_event_code)>>>>

RECURSIVE OverlayFrom(_, _, _)
OverlayFrom(dict, items, i) ==
    IF i > Len(items) THEN dict
    ELSE OverlayFrom(DictSet(dict, items[i][1], items[i][2]), items, i + 1)

\* for k, v in assoc.items(): readvar_data.data[k] = v
Overlay(dict, assoc) == OverlayFrom(dict, AssocItems(assoc), 1)

\* timeout=5 of request()
Timeout == 5

\* Seconds of one exchange the model follows.
MaxElapsed == 7

\* socket.getaddrinfo(host, port)[0][4] for the queried host
ServerAddr == <<"192.0.2.1", 123>>

\* Source addresses of arriving datagrams: the server, the server's host from
\* another port, another host.
SamePortOtherHost == <<"198.51.100.7", 123>>
SameHostOtherPort == <<"192.0.2.1", 5000>>

\* Payloads of arriving datagrams.
StatReply(n) == Header(22, 129, 1, 1556, 0, 0, 4 * n) \o StatBody(4 * n)
VarReply(association_id, text) ==
    Header(22, 130, 1, 0, association_id, 0, Len(text)) \o text

MaxAssocs == 2

ServerPayloads ==
    {StatReply(n) : n \in 0..MaxAssocs}
    \cup {Header(22, 129, 1, 1556, 0, 0, 5) \o StatBody(5),
          VarReply(20, Text3), VarReply(20, Text4), VarReply(20, Text2),
          Header(22, 135, 1, 0, 0, 0, 0),
          SubSeq(Header(22, 129, 1, 0, 0, 0, 0), 1, 4)}

Datagrams ==
    {[src |-> ServerAddr, payload |-> p] : p \in ServerPayloads}
    \cup {[src |-> SameHostOtherPort, payload |-> p] : p \in {StatReply(1), VarReply(20, Text3)}}
    \cup {[src |-> SamePortOtherHost, payload |-> StatReply(1)]}

\* Arguments of a direct call of request().
DirectArgs ==
    {[op |-> op, association_id |-> id] : op \in OpInputs, id \in {0, 20, 65536}}

ClientInit ==
    /\ AssocIdle
    /\ CodecIdle
    /\ ClientIdle

\* Entry into request(host, op=..., association_id=...)
CallRequest(op, association_id) ==
    /\ req_pc' = "getaddrinfo"
    /\ req_args' = [op |-> op, association_id |-> association_id]
    /\ sockaddr' = <<"None">>
    /\ sock' = "none"
    /\ src_addr' = <<"None">>
    /\ response_packet' = <<>>
    /\ req_err' = "none"
    /\ n_opened' = 0
    /\ n_sent' = 0
    /\ waited' = 0
    /\ elapsed' = 0
    /\ UNCHANGED <<ncp, sent>>

\* A caller other than composite_associnfo calls request().
DirectCall ==
    /\ agg_pc = "idle"
    /\ \E a \in DirectArgs : CallRequest(a.op, a.association_id)
    /\ agg_pc' = "direct"
    /\ UNCHANGED <<agg_assocs, agg_stat, agg_i, agg_data, agg_err, assoc_vars, codec_vars>>

\* addrinfo = socket.getaddrinfo(host, port)[0]
GetAddrInfo ==
    /\ req_pc = "getaddrinfo"
    /\ sockaddr' = ServerAddr
    /\ req_pc' = "socket"
    /\ UNCHANGED <<req_args, sock, src_addr, response_packet, ncp, req_err,
                   n_opened, n_sent, waited, elapsed, sent, agg_vars, assoc_vars, codec_vars>>

\* socket.getaddrinfo raises socket.gaierror: no socket was created
GetAddrInfoFails ==
    /\ req_pc = "getaddrinfo"
    /\ req_err' = "socket.gaierror"
    /\ req_pc' = "raised"
    /\ UNCHANGED <<req_args, sockaddr, sock, src_addr, response_packet, ncp,
                   n_opened, n_sent, waited, elapsed, sent, agg_vars, assoc_vars, codec_vars>>

\* s = socket.socket(family, socket.SOCK_DGRAM)
OpenSocket ==
    /\ req_pc = "socket"
    /\ sock' = "open"
    /\ n_opened' = n_opened + 1
    /\ req_pc' = "try"
    /\ UNCHANGED <<req_args, sockaddr, src_addr, response_packet, ncp, req_err,
                   n_sent, waited, elapsed, sent, agg_vars, assoc_vars, codec_vars>>

\* The state of s after the finally clause
Finally == "closed"

\* s.settimeout(timeout); query_packet = NTPControlPacket(op=op,
\* association_id=association_id); s.sendto(query_packet.to_data(), sockaddr);
\* src_addr = None,  -- or the exception the constructor or to_data raises,
\* which leaves through the finally clause.
SendRequest ==
    /\ req_pc = "try"
    /\ LET query_packet == NewPacket(2, req_args.op, req_args.association_id, 1)
           buf == IF query_packet.err # "none"
                  THEN [err |-> query_packet.err, buf |-> <<>>]
                  ELSE to_data(query_packet)
       IN  IF buf.err # "none"
           THEN /\ req_err' = buf.err
                /\ sock' = Finally
                /\ req_pc' = "raised"
                /\ UNCHANGED <<n_sent, sent, src_addr>>
           ELSE /\ sent' = Append(sent, [buf |-> buf.buf, to |-> sockaddr])
                /\ n_sent' = n_sent + 1
                /\ src_addr' = <<"None">>
                /\ req_pc' = "recvfrom"
                /\ UNCHANGED <<req_err, sock>>
    /\ UNCHANGED <<req_args, sockaddr, response_packet, ncp, n_opened, waited,
                   elapsed, agg_vars, assoc_vars, codec_vars>>

\* s.sendto raises socket.error: it leaves through the finally clause
SendFails ==
    /\ req_pc = "try"
    /\ req_args.op \in OpNames
    /\ to_data(NewPacket(2, req_args.op, req_args.association_id, 1)).err = "none"
    /\ req_err' = "socket.error"
    /\ sock' = Finally
    /\ req_pc' = "raised"
    /\ UNCHANGED <<req_args, sockaddr, src_addr, response_packet, ncp, n_opened,
                   n_sent, waited, elapsed, sent, agg_vars, assoc_vars, codec_vars>>

\* One second passes while s.recvfrom(512) is blocked.
Tick ==
    /\ req_pc = "recvfrom"
    /\ waited < Timeout
    /\ elapsed < MaxElapsed
    /\ waited' = waited + 1
    /\ elapsed' = elapsed + 1
    /\ UNCHANGED <<req_pc, req_args, sockaddr, sock, src_addr, response_packet, ncp,
                   req_err, n_opened, n_sent, sent, agg_vars, assoc_vars, codec_vars>>

\* A loop that takes the first datagram, whatever its source
AcceptAnything(src) == FALSE

\* The condition of `while src_addr[0] != sockaddr[0]`
KeepWaiting(src) == src[1] # sockaddr[1]

\* response_packet, src_addr = s.recvfrom(512) returns a datagram; the loop
\* condition is evaluated on it.
RecvFrom ==
    /\ req_pc = "recvfrom"
    /\ waited < Timeout
    /\ \E dg \in Datagrams :
         /\ response_packet' = dg.payload
         /\ src_addr' = dg.src
         /\ req_pc' = IF KeepWaiting(dg.src) THEN "recvfrom" ELSE "finally"
    /\ waited' = 0
    /\ UNCHANGED <<req_args, sockaddr, sock, ncp, req_err, n_opened, n_sent,
                   elapsed, sent, agg_vars, assoc_vars, codec_vars>>

\* RecvTimeout without the finally clause
RecvTimeoutLeaks ==
    /\ req_pc = "recvfrom"
    /\ waited = Timeout
    /\ req_err' = "NTPException"
    /\ sock' = sock
    /\ req_pc' = "raised"
    /\ UNCHANGED <<req_args, sockaddr, src_addr, response_packet, ncp, n_opened,
                   n_sent, waited, elapsed, sent, agg_vars, assoc_vars, codec_vars>>

\* s.recvfrom raises socket.timeout: except socket.timeout raises
\* NTPException("No response received from ..."), through the finally clause.
RecvTimeout ==
    /\ req_pc = "recvfrom"
    /\ waited = Timeout
    /\ req_err' = "NTPException"
    /\ sock' = Finally
    /\ req_pc' = "raised"
    /\ UNCHANGED <<req_args, sockaddr, src_addr, response_packet, ncp, n_opened,
                   n_sent, waited, elapsed, sent, agg_vars, assoc_vars, codec_vars>>

\* The loop has ended: dest_timestamp = ...; finally: s.close()
CloseSocket ==
    /\ req_pc = "finally"
    /\ sock' = Finally
    /\ req_pc' = "from_data"
    /\ UNCHANGED <<req_args, sockaddr, src_addr, response_packet, ncp, req_err,
                   n_opened, n_sent, waited, elapsed, sent, agg_vars, assoc_vars, codec_vars>>

\* ncp = NTPControlPacket(); ncp.from_data(response_packet); return ncp
FromData ==
    /\ req_pc = "from_data"
    /\ LET r == from_data(NewPacket(2, "readstat", 0, 1), response_packet) IN
         /\ ncp' = r
         /\ req_err' = r.err
         /\ req_pc' = IF r.err = "none" THEN "returned" ELSE "raised"
    /\ UNCHANGED <<req_args, sockaddr, sock, src_addr, response_packet, n_opened,
                   n_sent, waited, elapsed, sent, agg_vars, assoc_vars, codec_vars>>

\* composite_associnfo(): ncc.request(host, op="readstat")
AggStart ==
    /\ agg_pc = "idle"
    /\ CallRequest("readstat", 0)
    /\ agg_pc' = "readstat"
    /\ UNCHANGED <<agg_assocs, agg_stat, agg_i, agg_data, agg_err, assoc_vars, codec_vars>>

\* A READVAR request that leaves association_id at its default
ReadvarIdZero(assoc) == 0

\* The association_id the READVAR request for assoc carries
ReadvarId(assoc) == assoc.association_id

\* The head of `for assoc in ncp.data` at index i (1-based) and the request of
\* its body, or the return of `data` when the list is exhausted.
AggLoop(assocs, i, data) ==
    IF i > Len(assocs)
    THEN /\ agg_pc' = "returned"
         /\ agg_i' = i
         /\ agg_data' = data
         /\ UNCHANGED req_vars
    ELSE /\ agg_pc' = "readvar"
         /\ agg_i' = i
         /\ agg_data' = data
         /\ CallRequest("readvar", ReadvarId(assocs[i]))

\* request() returned the READSTAT exchange's packet: data = list(); the loop
\* starts.  Iterating a dict (a READVAR-shaped reply) yields its keys, and
\* assoc['association_id'] on a key raises TypeError.
AggReadstatReturned ==
    /\ agg_pc = "readstat"
    /\ req_pc = "returned"
    /\ agg_stat' = response_packet
    /\ IF ncp.data.kind = "list"
       THEN /\ agg_assocs' = ncp.data.list
            /\ agg_err' = "none"
            /\ AggLoop(ncp.data.list, 1, <<>>)
       ELSE /\ agg_err' = "TypeError"
            /\ agg_pc' = "raised"
            /\ UNCHANGED <<agg_assocs, agg_i, agg_data, req_vars>>
    /\ UNCHANGED <<assoc_vars, codec_vars>>

\* request() returned a READVAR exchange's packet: the association's items are
\* written into readvar_data.data, the packet is appended, the loop goes on.
\* readvar_data.data[k] = v on a list (a READSTAT-shaped reply) raises TypeError.
AggReadvarReturned ==
    /\ agg_pc = "readvar"
    /\ req_pc = "returned"
    /\ IF ncp.data.kind = "dict"
       THEN LET readvar_data ==
                    [ncp EXCEPT !.data.dict = Overlay(ncp.data.dict, agg_assocs[agg_i])]
            IN  /\ agg_err' = "none"
                /\ AggLoop(agg_assocs, agg_i + 1, Append(agg_data, readvar_data))
       ELSE /\ agg_err' = "TypeError"
            /\ agg_pc' = "raised"
            /\ UNCHANGED <<agg_i, agg_data, req_vars>>
    /\ UNCHANGED <<agg_assocs, agg_stat, assoc_vars, codec_vars>>

\* request() raised: composite_associnfo catches nothing.
AggRequestRaised ==
    /\ agg_pc \in {"readstat", "readvar"}
    /\ req_pc = "raised"
    /\ agg_err' = req_err
    /\ agg_pc' = "raised"
    /\ UNCHANGED <<agg_assocs, agg_stat, agg_i, agg_data, req_vars, assoc_vars, codec_vars>>

ClientNext ==
    \/ DirectCall
    \/ GetAddrInfo
    \/ GetAddrInfoFails
    \/ OpenSocket
    \/ SendRequest
    \/ SendFails
    \/ Tick
    \/ RecvFrom
    \/ RecvTimeout
    \/ CloseSocket
    \/ FromData
    \/ AggStart
    \/ AggReadstatReturned
    \/ AggReadvarReturned
    \/ AggRequestRaised

Spec == ClientInit /\ [][ClientNext]_vars

-----------------------------------------------------------------------------
(* Properties of the request exchange and of the aggregator                 *)

\* The opcode and association_id fields of a sent request, by the wire layout.
SentOpcode(m) == m.buf[2] % 32
SentAssocId(m) == 256 * m.buf[7] + m.buf[8]

\* The association_id of the i-th 4-byte record of a READSTAT response.
WireAssocId(data, i) ==
    256 * data[HeaderLen + 4 * i - 3] + data[HeaderLen + 4 * i - 2]

\* C2: when the READSTAT reply decodes to N association records and every
\* exchange returns the kind of body asked for, composite_associnfo sends
\* exactly 1 + N requests, one at a time (READSTAT with association_id 0, then
\* one READVAR per association with that association's id, in order), and
\* returns N records whose association_id are those of the READSTAT response,
\* in its order; it raises only when an exchange raised or returned a body of
\* the other kind.
AggregatorContract ==
    /\ agg_pc \in {"readstat", "readvar"} =>
           (Len(sent) = agg_i + n_sent /\ Len(agg_data) = (IF agg_i = 0 THEN 0 ELSE agg_i - 1))
    /\ agg_pc = "raised" => (req_pc = "raised" \/ agg_err = "TypeError")
    /\ agg_pc = "returned" =>
           LET N == Len(agg_assocs) IN
           /\ req_pc = "returned"
           /\ N = BodyLen(agg_stat) \div 4
           /\ \A i \in 1..N : agg_assocs[i].association_id = WireAssocId(agg_stat, i)
           /\ Len(sent) = 1 + N
           /\ SentOpcode(sent[1]) = READSTAT
           /\ SentAssocId(sent[1]) = 0
           /\ \A i \in 1..N :
                  /\ SentOpcode(sent[1 + i]) = READVAR
                  /\ SentAssocId(sent[1 + i]) = agg_assocs[i].association_id
           /\ Len(agg_data) = N
           /\ \A i \in 1..N :
                  agg_data[i].data.dict[Key_association_id] =
                      IntVal(agg_assocs[i].association_id)

\* Two associations (ids 20 and 21): three requests, two records.
AggregatorWitness ==
    /\ agg_pc = "returned"
    /\ Len(agg_assocs) = 2
    /\ Len(sent) = 3
    /\ SentAssocId(sent[2]) = 20
    /\ SentAssocId(sent[3]) = 21
    /\ Len(agg_data) = 2
    /\ agg_data[1].data.dict[Key_association_id] = IntVal(20)
    /\ agg_data[2].data.dict[Key_association_id] = IntVal(21)

\* C3: a call of request() that gets as far as creating its socket creates
\* exactly one and sends at most once on it; the socket is closed whenever
\* the call has returned or raised, and before the response is decoded.
SocketLifecycle ==
    /\ n_opened <= 1
    /\ n_sent <= n_opened
    /\ sock = "open" => req_pc \in {"try", "recvfrom", "finally"}
    /\ req_pc \in {"try", "recvfrom", "finally"} => (sock = "open" /\ n_opened = 1)
    /\ req_pc = "from_data" => (sock = "closed" /\ n_opened = 1)
    /\ req_pc = "returned" => (sock = "closed" /\ n_opened = 1 /\ n_sent = 1)
    /\ req_pc = "raised" =>
           IF req_err = "socket.gaierror"
           THEN sock = "none" /\ n_opened = 0
           ELSE sock = "closed" /\ n_opened = 1

\* The timeout path: one socket, one send, closed when NTPException leaves.
SocketLifecycleWitness ==
    /\ req_pc = "raised"
    /\ req_err = "NTPException"
    /\ waited = Timeout
    /\ n_opened = 1
    /\ n_sent = 1
    /\ sock = "closed"

\* C4 as stated: the datagram handed to the decoder has a source address
\* equal to the resolved server address, address and port.
SourceAddressMatches ==
    req_pc \in {"finally", "from_data", "returned"} => src_addr = sockaddr

\* C4 as amended: the loop discards every datagram whose source host (element
\* 0 of the address) differs from the host of the resolved address, so the
\* datagram handed to the decoder comes from the resolved host; its source
\* port is not compared.
SourceHostMatches ==
    /\ req_pc \in {"finally", "from_data", "returned"} => src_addr[1] = sockaddr[1]
    /\ (req_pc = "recvfrom" /\ src_addr # <<"None">>) => src_addr[1] # sockaddr[1]
    /\ (req_pc = "raised" /\ n_sent = 1 /\ waited = Timeout /\ src_addr # <<"None">>) =>
           src_addr[1] # sockaddr[1]

\* A datagram from the server's host and another port is being decoded.
SourceHostWitness ==
    /\ req_pc = "from_data"
    /\ src_addr = SameHostOtherPort
    /\ sockaddr = ServerAddr
    /\ response_packet = StatReply(1)

\* C5: the request does not wait for a response beyond the configured timeout,
\* whatever datagrams arrive, and sends once.
ReceiveBoundedByTimeout ==
    /\ n_sent <= 1
    /\ req_pc = "recvfrom" => elapsed <= Timeout

====
